---- MODULE Spec2Model ----
(***************************************************************************)
(* kafe.fit : the Fit object (src/src/kafe/fit.py).                        *)
(*                                                                         *)
(* Numbers.  Data, parameter values and covariance entries are integers.  *)
(* Parameter errors are kept in tenths (an error of 0.1 is the integer 1), *)
(* so that value/10 is exact.  The objective is an exact fraction          *)
(* [num, den].  Derivative steps are kept in hundredths of the data unit.  *)
(*                                                                         *)
(* Parameter ids are 0-based as in the Python code; the sequences that    *)
(* hold per-parameter data are 1-based, so id k is stored at index k+1.   *)
(***************************************************************************)
EXTENDS Integers, Sequences, FiniteSets, TLC

\* ------------------------------------------------------------------ bounds
\* number of calls (do_fit, set/fix/release/constrain_parameters) made on
\* one Fit after its construction
MaxCalls == 2
\* Fit objects constructed one after the other with the same basename
MaxFits == 3
\* numbered log names <basename>.1.log .. <basename>.MaxLogId.log that the
\* directory can hold
MaxLogId == 4

\* ------------------------------------------------------- program constants
\* do_fit: max_x_iterations = 10
max_x_iterations == 10
\* do_fit: np.allclose(..., atol=0, rtol=1e-4); rtol is kept as 1/RtolInv
RtolInv == 10000
atol == 0

\* --------------------------------------------------------------- arithmetic
Abs(v) == IF v < 0 THEN 0 - v ELSE v

\* Euclid's algorithm, as a function so that its arguments are values
gcd[a \in Nat, b \in Nat] == IF b = 0 THEN a ELSE gcd[b, a % b]
GCD(a, b) == gcd[a, b]

\* the fraction n/d in lowest terms with a positive denominator (d # 0)
Frac(n, d) ==
    LET g == GCD(Abs(n), Abs(d))
        s == IF d < 0 THEN 0 - 1 ELSE 1
    IN  [num |-> (s * n) \div g, den |-> (s * d) \div g]

FracAdd(p, q) == Frac(p.num * q.den + q.num * p.den, p.den * q.den)

\* floor of the square root of n >= 0, by bisection: lo*lo <= n < hi*hi
isqrt[n \in Nat, lo \in Nat, hi \in Nat] ==
    IF hi - lo <= 1 THEN lo
    ELSE IF ((lo + hi) \div 2) * ((lo + hi) \div 2) <= n
         THEN isqrt[n, (lo + hi) \div 2, hi]
         ELSE isqrt[n, lo, (lo + hi) \div 2]
Isqrt(n) == isqrt[n, 0, 46341]

\* ------------------------------------------------------------ fit function
\* The user's fit function: first argument x, then named parameters with
\* defaults.  Here f(x; a, b) = a*x*x + b*x with defaults a = 1, b = 0.
parameter_names == <<"a", "b">>
parameter_defaults == <<1, 0>>
fit_function(x, p) == p[1] * x * x + p[2] * x

\* Fit.__init__: self.number_of_parameters
number_of_parameters == Len(parameter_names)
ParIdx == 1..number_of_parameters

\* FitFunction.derive_by_x(x_0, precision_list, parameter_values): the
\* central difference quotient (f(x+h) - f(x-h)) / 2h at every x, with the
\* step h given per point in hundredths.  f is evaluated on the hundredths
\* grid: F100(X, p) = 10000 * f(X/100; p).
F100(X, p) == p[1] * X * X + 100 * p[2] * X
derive_by_x(xs, precision_list, p) ==
    [i \in 1..Len(xs) |->
        LET X == 100 * xs[i]
            H == precision_list[i]
        IN  (F100(X + H, p) - F100(X - H, p)) \div (200 * H)]

\* function_tools.outer_product(v)
outer_product(v) == [i \in 1..Len(v) |-> [j \in 1..Len(v) |-> v[i] * v[j]]]

\* ------------------------------------------------------------------ dataset
\* The Dataset is queried, never changed.  A dataset is a record of what
\* get_data, get_cov_mat, has_errors and get_size return.  All datasets have
\* the points (1, 1) and (2, 3).  The covariance matrices are symmetric and,
\* where the axis has errors, positive definite (the objective inverts the
\* working matrix, so a dataset whose projected matrix can be singular is
\* outside what the Fit supports).
Zero2 == <<<<0, 0>>, <<0, 0>>>>
Datasets ==
    { \* y-errors only, uncorrelated
      [x |-> <<1, 2>>, y |-> <<1, 3>>, has_x |-> FALSE, has_y |-> TRUE,
       cov_x |-> Zero2, cov_y |-> <<<<1, 0>>, <<0, 1>>>>],
      \* no errors at all
      [x |-> <<1, 2>>, y |-> <<1, 3>>, has_x |-> FALSE, has_y |-> FALSE,
       cov_x |-> Zero2, cov_y |-> Zero2],
      \* correlated x- and y-errors, the y-errors large against the
      \* x-errors, so that some projections differ within the tolerance
      [x |-> <<1, 2>>, y |-> <<1, 3>>, has_x |-> TRUE, has_y |-> TRUE,
       cov_x |-> <<<<1, 1>>, <<1, 2>>>>,
       cov_y |-> <<<<20000, 9999>>, <<9999, 20000>>>>] }

get_size(ds) == Len(ds.x)
eye(n) == [i \in 1..n |-> [j \in 1..n |-> IF i = j THEN 1 ELSE 0]]

\* ------------------------------------------------------------------- state
VARIABLES
    dataset,                          \* self.dataset
    current_parameter_values,         \* self.current_parameter_values
    current_parameter_errors,         \* self.current_parameter_errors (tenths)
    fixed_parameters,                 \* self._fixed_parameters
    number_of_fixed_parameters,       \* self.number_of_fixed_parameters
    constrained_flags,                \* self._constrained_parameters
    constrained_parameters,           \* self.constrained_parameters
    number_of_constrained_parameters, \* self.number_of_constrained_parameters
    current_cov_mat,                  \* self.current_cov_mat
    min_values,                       \* the minimizer's parameter values
    min_fixed,                        \* ids the minimizer holds fixed
    pc,                               \* position inside do_fit, or "idle"
    iter_nr,                          \* do_fit: iter_nr
    old_matrix,                       \* do_fit: old_matrix
    trace,                            \* steps of the current/last do_fit
    first_min_cov,                    \* working matrix at the first minimizer call of the current/last do_fit
    fcn_point,                        \* last point the objective was evaluated at
    fcn_value,                        \* its value there (0 before any evaluation)
    last_call,                        \* last lifecycle call and its outcome
    fit_nr,                           \* do_fit calls started
    ncalls,                           \* calls made (do_fit and lifecycle)
    files,                            \* the log files of this basename
    log_nr                            \* Fits constructed with this basename

vars == <<dataset, current_parameter_values, current_parameter_errors,
          fixed_parameters, number_of_fixed_parameters, constrained_flags,
          constrained_parameters, number_of_constrained_parameters,
          current_cov_mat, min_values, min_fixed, pc, iter_nr, old_matrix,
          trace, first_min_cov, fcn_point, fcn_value, last_call, fit_nr, ncalls,
          files, log_nr>>

param_vars == <<current_parameter_values, current_parameter_errors>>
fixed_vars == <<fixed_parameters, number_of_fixed_parameters>>
constr_vars == <<constrained_flags, constrained_parameters,
                 number_of_constrained_parameters>>
loop_vars == <<iter_nr, old_matrix>>
fcn_vars == <<fcn_point, fcn_value>>
log_vars == <<files, log_nr>>

\* Python's None for self.constrained_parameters
None == <<>>

\* ------------------------------------------------------------ the objective
\* numpy: cov_mat.I of a 2x2 matrix is Adj(C) / Det(C)
Det(C) == C[1][1] * C[2][2] - C[1][2] * C[2][1]
Adj(C) == <<<<C[2][2], 0 - C[1][2]>>, <<0 - C[2][1], C[1][1]>>>>

\* residual.T.dot(M).dot(residual)
RECURSIVE SumTo(_, _)
SumTo(f, n) == IF n = 0 THEN 0 ELSE f[n] + SumTo(f, n - 1)
QuadForm(r, M) ==
    SumTo([i \in 1..Len(r) |->
              SumTo([j \in 1..Len(r) |-> r[i] * M[i][j] * r[j]], Len(r))],
          Len(r))

\* chi2 with the penalty term left unsquared (dchi2 *= dchi2 dropped)
RECURSIVE ApplyConstraints_unsquared(_, _, _, _)
ApplyConstraints_unsquared(chi2val, parameter_values, constr, i) ==
    IF i > Len(constr[2]) THEN chi2val
    ELSE LET err == constr[2][i]
         IN  IF err # 0
             THEN ApplyConstraints_unsquared(
                      FracAdd(chi2val,
                              Frac(parameter_values[i] - constr[1][i], err)),
                      parameter_values, constr, i + 1)
             ELSE ApplyConstraints_unsquared(chi2val, parameter_values,
                                             constr, i + 1)

\* chi2: the loop "for i, err in enumerate(constrained_parameters[1])"
\* from index i on, adding the penalty terms to chi2val
RECURSIVE ApplyConstraints(_, _, _, _)
ApplyConstraints(chi2val, parameter_values, constr, i) ==
    IF i > Len(constr[2]) THEN chi2val
    ELSE LET err == constr[2][i]
         IN  IF err # 0
             THEN LET d == parameter_values[i] - constr[1][i]
                  IN  ApplyConstraints(FracAdd(chi2val, Frac(d * d, err * err)),
                                       parameter_values, constr, i + 1)
             ELSE ApplyConstraints(chi2val, parameter_values, constr, i + 1)

\* chi2(xdata, ydata, cov_mat, fit_function, parameter_values,
\*      constrained_parameters=None), the default FCN; the fit_function
\* argument is always the Fit's fit function
chi2(xdata, ydata, cov_mat, parameter_values, constr) ==
    LET fdata == [i \in 1..Len(xdata) |->
                     fit_function(xdata[i], parameter_values)]
        residual == [i \in 1..Len(xdata) |-> ydata[i] - fdata[i]]
        chi2val == Frac(QuadForm(residual, Adj(cov_mat)), Det(cov_mat))
    IN  IF constr # None
        THEN ApplyConstraints(chi2val, parameter_values, constr, 1)
        ELSE chi2val

\* Fit.call_external_fcn: the positional arguments self.external_fcn is
\* called with (the fit function is passed as itself)
external_fcn_arguments(parameter_values) ==
    <<dataset.x, dataset.y, current_cov_mat, "fit_function",
      parameter_values, constrained_parameters>>

\* Fit.call_external_fcn(*parameter_values) with external_fcn = chi2;
\* self.xdata and self.ydata are the dataset's data
call_external_fcn(parameter_values) ==
    LET args == external_fcn_arguments(parameter_values)
    IN  chi2(args[1], args[2], args[3], args[5], args[6])

\* ------------------------------------------------------- x-error projection
\* precision_list = 0.01 * sqrt(diag(current_cov_mat)), in hundredths, the
\* root taken downwards; a zero step is replaced (1e-7 in the code, here the
\* smallest step of the grid)
precision_list(cov) ==
    [i \in 1..Len(cov) |->
        LET p == Isqrt(cov[i][i]) IN IF p = 0 THEN 1 ELSE p]

\* a projection that adds to the working matrix instead of the y matrix
project_onto_working_matrix(ds, cov, parameter_values) ==
    LET d == derive_by_x(ds.x, precision_list(cov), parameter_values)
    IN  [i \in 1..Len(cov) |-> [j \in 1..Len(cov) |->
            cov[i][j] + ds.cov_x[i][j] * d[i] * d[j]]]

\* Fit.project_x_covariance_matrix: the new self.current_cov_mat
project_x_covariance_matrix(ds, cov, parameter_values) ==
    LET outer_prod == outer_product(
                          derive_by_x(ds.x, precision_list(cov),
                                      parameter_values))
        proj_xcov_mat == [i \in 1..Len(cov) |-> [j \in 1..Len(cov) |->
                             ds.cov_x[i][j] * outer_prod[i][j]]]
    IN  [i \in 1..Len(cov) |-> [j \in 1..Len(cov) |->
            ds.cov_y[i][j] + proj_xcov_mat[i][j]]]

\* a comparison that takes the tolerance from the first matrix
allclose_first(a, b) ==
    \A i \in 1..Len(a) : \A j \in 1..Len(a) :
        RtolInv * Abs(a[i][j] - b[i][j]) <= RtolInv * atol + Abs(a[i][j])

\* np.allclose(a, b, atol=0, rtol=1e-4): |a - b| <= atol + rtol * |b|
\* element-wise, both sides multiplied by RtolInv
allclose(a, b) ==
    \A i \in 1..Len(a) : \A j \in 1..Len(a) :
        RtolInv * Abs(a[i][j] - b[i][j]) <= RtolInv * atol + Abs(b[i][j])

\* mutants of the three decisions of do_fit
FirstFinalFit_never(ds) == FALSE
LoopFinalFit_always(iter) == TRUE
LoopContinues_inclusive(iter) == iter <= max_x_iterations

\* do_fit: final_fit of the first minimizer call
FirstFinalFit(ds) == ~ds.has_x
\* do_fit: final_fit of the minimizer call of loop iteration iter
LoopFinalFit(iter) == iter # 0
\* do_fit: the while condition
LoopContinues(iter) == iter < max_x_iterations

\* ---------------------------------------------------------------- minimizer
\* Points the search may end at (a parameter the minimizer holds fixed
\* keeps its value instead), and the error (tenths) it may report for the
\* free parameters.
MinPoints == {<<0, 0>>, <<0, 1>>, <<1, 1>>}
MinErrs == {2}

\* set_parameters, errors omitted: val/10. if val else 0.1 (tenths)
DefaultErrors(vals) ==
    [i \in 1..Len(vals) |-> IF vals[i] # 0 THEN vals[i] ELSE 1]

NoCall == [op |-> "none", refs |-> <<>>, args |-> <<>>, raised |-> "none"]

\* ---------------------------------------------------------------- log files
\* The directory as far as the Fit looks at it: index 0 is <basename>.log,
\* index k >= 1 is <basename>.k.log.  A file is its contents: the number c
\* of the Fit that opened it, a negative number for a file that was there
\* before the first Fit, Absent when there is no file of that name.
Absent == 0
LogNames == 0..MaxLogId
exists(fs, k) == k \in DOMAIN fs /\ fs[k] # Absent

\* a search that takes the first numbered name, free or not
RECURSIVE find_free_id_no_search(_, _)
find_free_id_no_search(fs, id) == id

\* Fit.__init__: _id = 1; while os.path.exists(...): _id += 1, from _id = id
RECURSIVE find_free_id(_, _)
find_free_id(fs, id) ==
    IF exists(fs, id) THEN find_free_id(fs, id + 1) ELSE id

\* Fit.__init__, "check for old logs": os.rename of an existing
\* <basename>.log to the first free numbered name
rename_old_log(fs) ==
    IF exists(fs, 0)
    THEN LET id == find_free_id(fs, 1)
         IN  [k \in DOMAIN fs |-> IF k = id THEN fs[0]
                                  ELSE IF k = 0 THEN Absent ELSE fs[k]]
    ELSE fs

\* StreamDup(['fit.log', _basenamelog]): <basename>.log is opened for
\* writing by Fit number c
open_log(fs, c) == [fs EXCEPT ![0] = c]

\* the directories a first Fit may find: any files, with distinct contents,
\* a numbered name still free when there is a <basename>.log to move
NoFiles == [k \in LogNames |-> Absent]
OldFiles ==
    { [k \in LogNames |-> IF k \in present THEN 0 - (k + 1) ELSE Absent] :
          present \in { q \in SUBSET LogNames :
                            0 \in q => \E k \in 1..MaxLogId : k \notin q } }

\* ------------------------------------------------------------------- Init
\* Fit.__init__(dataset, fit_function): the fields of the new Fit
Fit_init ==
    /\ dataset \in Datasets
    /\ current_parameter_values = parameter_defaults
    /\ current_parameter_errors = DefaultErrors(parameter_defaults)
    /\ fixed_parameters = [i \in ParIdx |-> FALSE]
    /\ number_of_fixed_parameters = 0
    /\ constrained_flags = [i \in ParIdx |-> FALSE]
    /\ constrained_parameters = <<[i \in ParIdx |-> 0], [i \in ParIdx |-> 0]>>
    /\ number_of_constrained_parameters = 0
    /\ current_cov_mat = IF dataset.has_y THEN dataset.cov_y
                         ELSE eye(get_size(dataset))
    /\ min_values = parameter_defaults
    /\ min_fixed = {}
    /\ pc = "idle"
    /\ iter_nr = 0
    /\ old_matrix = <<>>
    /\ trace = <<>>
    /\ first_min_cov = <<>>
    /\ fcn_point = <<>>
    /\ fcn_value = Frac(0, 1)
    /\ last_call = NoCall
    /\ fit_nr = 0
    /\ ncalls = 0

\* a Fit constructed in a directory without logs of its basename
Init ==
    /\ Fit_init
    /\ files = open_log(rename_old_log(NoFiles), 1)
    /\ log_nr = 1

\* a Fit constructed in a directory that may hold logs of its basename
LogInit ==
    /\ Fit_init
    /\ log_nr = 1
    /\ \E old \in OldFiles : files = open_log(rename_old_log(old), 1)

\* Fit.__init__ once more, for the same dataset (the same basename): the
\* new Fit has the fields of a new Fit, the old log is moved and a new
\* one opened.  The search for a free name is cut at MaxLogId.
Fit_construct ==
    /\ log_nr < MaxFits
    /\ pc = "idle" /\ ncalls = 0
    /\ exists(files, 0) => \E k \in 1..MaxLogId : ~exists(files, k)
    /\ files' = open_log(rename_old_log(files), log_nr + 1)
    /\ log_nr' = log_nr + 1
    /\ UNCHANGED <<dataset, param_vars, fixed_vars, constr_vars,
                   current_cov_mat, min_values, min_fixed, pc, loop_vars,
                   trace, first_min_cov, fcn_vars, last_call, fit_nr, ncalls>>

\* ------------------------------------------------------ parameter lifecycle
\* A parameter reference is an integer (IntRef) or a string (StrRef).
IntRef(k) == [int |-> k]
StrRef(s) == [str |-> s]
IsInt(ref) == "int" \in DOMAIN ref

\* position (1-based) of Python index k in a sequence of length n, for
\* -n <= k < n: negative indices count from the end
PyIndex(k, n) == IF k < 0 THEN k + n + 1 ELSE k + 1

\* list.index(s): the 0-based position of the first s
NameIndex(names, s) == (CHOOSE i \in 1..Len(names) :
                           names[i] = s /\ \A j \in 1..(i - 1) : names[j] # s) - 1

\* Fit._find_parameter(lookup_string).  values[lookup] is tried first: an
\* integer inside -n..n-1 indexes the list and is returned as it is, an
\* integer outside raises IndexError (not caught), anything else raises
\* TypeError and is looked up among the names, None when it is not one.
find_parameter(values, names, lookup) ==
    IF IsInt(lookup)
    THEN IF 0 - Len(values) <= lookup.int /\ lookup.int < Len(values)
         THEN [status |-> "found", id |-> lookup.int]
         ELSE [status |-> "IndexError", id |-> 0]
    ELSE IF \E i \in 1..Len(names) : names[i] = lookup.str
         THEN [status |-> "found", id |-> NameIndex(names, lookup.str)]
         ELSE [status |-> "None", id |-> 0]

\* Minuit.fix_parameter(id) / release_parameter(id): the minimizer numbers
\* its parameters 0..n-1 and ignores any other number
minimizer_fix(fixed_ids, id) ==
    IF id \in 0..(number_of_parameters - 1) THEN fixed_ids \cup {id}
    ELSE fixed_ids
minimizer_release(fixed_ids, id) == fixed_ids \ {id}

\* np.float32(v): integers below 2^24 are stored exactly, larger ones are
\* rounded to a multiple of the spacing of their binade (here: of 2)
float32(v) == IF Abs(v) < 16777216 THEN v ELSE 2 * (v \div 2)

\* The part of the Fit that the lifecycle calls read and write, with the
\* exception a call ends with ("none" when it returns normally).
FitState ==
    [values |-> current_parameter_values,
     errors |-> current_parameter_errors,
     fixed |-> fixed_parameters,
     nfixed |-> number_of_fixed_parameters,
     cflags |-> constrained_flags,
     cpars |-> constrained_parameters,
     ncon |-> number_of_constrained_parameters,
     min_values |-> min_values,
     min_fixed |-> min_fixed,
     raised |-> "none"]

Raise(st, exc) == [st EXCEPT !.raised = exc]

\* set_parameters, lines 535-545: hand values and errors to the minimizer
update_minimizer(st) == [st EXCEPT !.min_values = st.values]

\* set_parameters(par_values) / set_parameters(par_values, par_errors):
\* args is the tuple of positional arguments (lines 472-509)
set_parameters_positional(st, args) ==
    IF Len(args[1]) # number_of_parameters
    THEN Raise(st, "Exception")
    ELSE LET st1 == [st EXCEPT !.values = args[1]]
         IN  IF Len(args) = 2
             THEN IF Len(args[1]) = number_of_parameters
                  THEN update_minimizer([st1 EXCEPT !.errors = args[2]])
                  ELSE Raise(st1, "Exception")
             ELSE update_minimizer(
                      [st1 EXCEPT !.errors = DefaultErrors(st1.values)])

\* set_parameters, keyword form, lines 518-528: the (value, error) a
\* parameter specification stands for; a bare value gets value * 0.1
kw_value_error(param_spec) ==
    IF "err" \in DOMAIN param_spec
    THEN <<param_spec.val, param_spec.err>>
    ELSE <<param_spec.val, param_spec.val>>

\* set_parameters(name=spec, ...): kwargs in iteration order from item i on
RECURSIVE set_parameters_kw_loop(_, _, _)
set_parameters_kw_loop(st, kwargs, i) ==
    IF i > Len(kwargs) THEN update_minimizer(st)
    ELSE LET f == find_parameter(st.values, parameter_names,
                                 StrRef(kwargs[i].name))
             ve == kw_value_error(kwargs[i].spec)
         IN  IF f.status = "None" THEN Raise(st, "ValueError")
             ELSE IF f.id + 1 > Len(st.errors)
             THEN Raise([st EXCEPT !.values[f.id + 1] = ve[1]], "IndexError")
             ELSE set_parameters_kw_loop(
                      [st EXCEPT !.values[f.id + 1] = ve[1],
                                 !.errors[f.id + 1] = ve[2]],
                      kwargs, i + 1)
set_parameters_keywords(st, kwargs) == set_parameters_kw_loop(st, kwargs, 1)

\* fix_parameters(*parameters_to_fix), from argument i on
RECURSIVE fix_loop(_, _, _)
fix_loop(st, refs, i) ==
    IF i > Len(refs) THEN st
    ELSE LET f == find_parameter(st.values, parameter_names, refs[i])
         IN  IF f.status = "IndexError" THEN Raise(st, "IndexError")
             ELSE IF f.status = "None" THEN Raise(st, "ValueError")
             ELSE fix_loop(
                      [st EXCEPT
                          !.min_fixed = minimizer_fix(@, f.id),
                          !.nfixed = @ + 1,
                          !.fixed[PyIndex(f.id, number_of_parameters)] = TRUE],
                      refs, i + 1)
fix_parameters(st, refs) == fix_loop(st, refs, 1)

\* release_parameters(*parameters_to_release), from argument i on
RECURSIVE release_loop(_, _, _)
release_loop(st, refs, i) ==
    IF i > Len(refs) THEN st
    ELSE LET f == find_parameter(st.values, parameter_names, refs[i])
         IN  IF f.status = "IndexError" THEN Raise(st, "IndexError")
             ELSE IF f.status = "None" THEN Raise(st, "ValueError")
             ELSE release_loop(
                      [st EXCEPT
                          !.min_fixed = minimizer_release(@, f.id),
                          !.nfixed = @ - 1,
                          !.fixed[PyIndex(f.id, number_of_parameters)] = FALSE],
                      refs, i + 1)
\* release_parameters: without arguments every parameter is released in
\* the minimizer (lines 589-596)
release_parameters(st, refs) ==
    IF Len(refs) > 0 THEN release_loop(st, refs, 1)
    ELSE [st EXCEPT !.min_fixed = {}]

\* constrain_parameters(parameters, parvals, parerrs), from item i on;
\* the two arrays of self.constrained_parameters are float32
RECURSIVE constrain_loop(_, _, _, _, _)
constrain_loop(st, parameters, parvals, parerrs, i) ==
    IF i > Len(parameters) THEN st
    ELSE LET f == find_parameter(st.values, parameter_names, parameters[i])
             k == PyIndex(f.id, number_of_parameters)
         IN  IF f.status = "IndexError" THEN Raise(st, "IndexError")
             ELSE IF f.status = "None" THEN Raise(st, "ValueError")
             ELSE IF st.cpars = None THEN Raise(st, "TypeError")
             ELSE constrain_loop(
                      [st EXCEPT
                          !.cpars[1][k] = float32(parvals[i]),
                          !.cpars[2][k] = float32(parerrs[i]),
                          !.ncon = @ + 1,
                          !.cflags[k] = TRUE],
                      parameters, parvals, parerrs, i + 1)
constrain_parameters(st, parameters, parvals, parerrs) ==
    constrain_loop(st, parameters, parvals, parerrs, 1)

\* ------------------------------------------------------- arguments explored
\* references: a valid id, a negative integer, an integer past the end, a
\* valid name, an unknown name
RefLists ==
    { <<>>,
      <<IntRef(0)>>, <<StrRef("b")>>, <<IntRef(0 - 1)>>, <<IntRef(2)>>,
      <<StrRef("zz")>>,
      <<IntRef(0), StrRef("b")>>, <<IntRef(0), IntRef(0)>>,
      <<IntRef(0), StrRef("zz")>>, <<StrRef("b"), IntRef(2)>>,
      <<StrRef("zz"), IntRef(0)>> }
\* positional values and errors (errors in tenths)
ValueLists == {<<0, 2>>, <<1>>, <<2, 1, 0>>}
ErrorLists == {<<5, 5>>, <<5>>, <<5, 5, 5>>}
PositionalArgs == {<<v>> : v \in ValueLists}
                      \cup {<<v, e>> : v \in ValueLists, e \in ErrorLists}
\* keyword arguments in iteration order: a bare value or a (value, error)
\* pair per name
KwItem(n, sp) == [name |-> n, spec |-> sp]
KwArgs ==
    { <<KwItem("a", [val |-> 0])>>, <<KwItem("b", [val |-> 2])>>,
      <<KwItem("a", [val |-> 2, err |-> 5])>>,
      <<KwItem("zz", [val |-> 2])>>,
      <<KwItem("a", [val |-> 2]), KwItem("b", [val |-> 0])>>,
      <<KwItem("b", [val |-> 0]), KwItem("zz", [val |-> 2])>>,
      <<KwItem("zz", [val |-> 2]), KwItem("b", [val |-> 0])>> }
\* constraint targets and sigmas
ParVals == {1}
ParErrs == {0, 1}

\* a lifecycle call returned or raised: the Fit as the call left it
Install(st, call) ==
    /\ current_parameter_values' = st.values
    /\ current_parameter_errors' = st.errors
    /\ fixed_parameters' = st.fixed
    /\ number_of_fixed_parameters' = st.nfixed
    /\ constrained_flags' = st.cflags
    /\ constrained_parameters' = st.cpars
    /\ number_of_constrained_parameters' = st.ncon
    /\ min_values' = st.min_values
    /\ min_fixed' = st.min_fixed
    /\ last_call' = [call EXCEPT !.raised = st.raised]
    /\ ncalls' = ncalls + 1
    /\ UNCHANGED <<dataset, log_vars, current_cov_mat, pc, loop_vars, trace,
                   first_min_cov, fcn_vars, fit_nr>>

CanCall == pc = "idle" /\ ncalls < MaxCalls

call_set_parameters_positional ==
    /\ CanCall
    /\ \E args \in PositionalArgs :
           Install(set_parameters_positional(FitState, args),
                   [op |-> "set_parameters", refs |-> <<>>, args |-> args,
                    raised |-> "none"])

call_set_parameters_keywords ==
    /\ CanCall
    /\ \E kw \in KwArgs :
           Install(set_parameters_keywords(FitState, kw),
                   [op |-> "set_parameters_kw",
                    refs |-> [i \in DOMAIN kw |-> StrRef(kw[i].name)],
                    args |-> [i \in DOMAIN kw |-> kw[i].spec],
                    raised |-> "none"])

call_fix_parameters ==
    /\ CanCall
    /\ \E refs \in RefLists :
           Install(fix_parameters(FitState, refs),
                   [op |-> "fix_parameters", refs |-> refs, args |-> <<>>,
                    raised |-> "none"])

call_release_parameters ==
    /\ CanCall
    /\ \E refs \in RefLists :
           Install(release_parameters(FitState, refs),
                   [op |-> "release_parameters", refs |-> refs,
                    args |-> <<>>, raised |-> "none"])

call_constrain_parameters ==
    /\ CanCall
    /\ \E refs \in RefLists \ {<<>>} :
       \E parvals \in [DOMAIN refs -> ParVals] :
       \E parerrs \in [DOMAIN refs -> ParErrs] :
           Install(constrain_parameters(FitState, refs, parvals, parerrs),
                   [op |-> "constrain_parameters", refs |-> refs,
                    args |-> <<parvals, parerrs>>, raised |-> "none"])

\* ----------------------------------------------------------------- do_fit
\* a minimizer that moves every parameter, fixed or not
call_minimizer_moves_fixed(final_fit) ==
    \E vals \in MinPoints, e \in MinErrs :
        /\ min_values' = vals
        /\ fcn_point' = vals
        /\ fcn_value' = call_external_fcn(vals)
        /\ current_parameter_values' = vals
        /\ current_parameter_errors' = [i \in ParIdx |-> e]
        /\ trace' = Append(trace, IF final_fit THEN "minimize_final"
                                  ELSE "minimize")

\* Fit.call_minimizer(final_fit): the minimizer searches, evaluating the
\* objective; it leaves the parameters it holds fixed where they are and
\* returns some value for every other one.  The Fit then reads values and
\* errors back.
call_minimizer(final_fit) ==
    \E vals \in MinPoints, e \in MinErrs :
        LET res == [i \in ParIdx |->
                       IF (i - 1) \in min_fixed THEN min_values[i] ELSE vals[i]]
        IN  /\ min_values' = res
            /\ fcn_point' = res
            /\ fcn_value' = call_external_fcn(res)
            /\ current_parameter_values' = res
            /\ current_parameter_errors' =
                   [i \in ParIdx |-> IF (i - 1) \in min_fixed THEN 0 ELSE e]
            /\ trace' = Append(trace, IF final_fit THEN "minimize_final"
                                      ELSE "minimize")

\* a do_fit that starts from the dataset's plain y matrix again
do_fit_begin_resets ==
    /\ CanCall
    /\ fit_nr' = fit_nr + 1
    /\ ncalls' = ncalls + 1
    /\ constrained_parameters' =
           IF number_of_constrained_parameters = 0 THEN None
           ELSE constrained_parameters
    /\ current_cov_mat' = IF dataset.has_y THEN dataset.cov_y
                          ELSE eye(get_size(dataset))
    /\ pc' = "call_minimizer"
    /\ trace' = <<>>
    /\ first_min_cov' = <<>>
    /\ last_call' = NoCall
    /\ UNCHANGED <<dataset, log_vars, param_vars, fixed_vars,
                   constrained_flags, number_of_constrained_parameters,
                   min_values, min_fixed, loop_vars, fcn_vars>>

\* do_fit entered: the report header, then lines 714-715
do_fit_begin ==
    /\ CanCall
    /\ fit_nr' = fit_nr + 1
    /\ ncalls' = ncalls + 1
    /\ constrained_parameters' =
           IF number_of_constrained_parameters = 0 THEN None
           ELSE constrained_parameters
    /\ pc' = "call_minimizer"
    /\ trace' = <<>>
    /\ first_min_cov' = <<>>
    /\ last_call' = NoCall
    /\ UNCHANGED <<dataset, log_vars, param_vars, fixed_vars, constrained_flags,
                   number_of_constrained_parameters, current_cov_mat,
                   min_values, min_fixed, loop_vars, fcn_vars>>

\* lines 720-723: the first minimizer call
do_fit_first_minimize ==
    /\ pc = "call_minimizer"
    /\ call_minimizer(FirstFinalFit(dataset))
    /\ first_min_cov' = current_cov_mat
    /\ pc' = IF dataset.has_x THEN "copy" ELSE "print"
    /\ iter_nr' = 0
    /\ UNCHANGED <<dataset, log_vars, fixed_vars, constr_vars, current_cov_mat,
                   min_fixed, old_matrix, last_call, fit_nr, ncalls>>

\* line 730: old_matrix = copy(self.current_cov_mat)
do_fit_copy ==
    /\ pc = "copy"
    /\ old_matrix' = current_cov_mat
    /\ trace' = Append(trace, "snapshot")
    /\ pc' = "project"
    /\ UNCHANGED <<dataset, log_vars, param_vars, fixed_vars, constr_vars,
                   current_cov_mat, min_values, min_fixed, iter_nr,
                   first_min_cov, fcn_vars, last_call, fit_nr, ncalls>>

\* line 731: self.project_x_covariance_matrix()
do_fit_project ==
    /\ pc = "project"
    /\ current_cov_mat' = project_x_covariance_matrix(
                              dataset, current_cov_mat,
                              current_parameter_values)
    /\ trace' = Append(trace, "project")
    /\ pc' = "loop_minimizer"
    /\ UNCHANGED <<dataset, log_vars, param_vars, fixed_vars, constr_vars, min_values,
                   min_fixed, loop_vars, first_min_cov, fcn_vars, last_call,
                   fit_nr, ncalls>>

\* lines 734-737: the minimizer call of the loop
do_fit_loop_minimize ==
    /\ pc = "loop_minimizer"
    /\ call_minimizer(LoopFinalFit(iter_nr))
    /\ pc' = "allclose"
    /\ UNCHANGED <<dataset, log_vars, fixed_vars, constr_vars, current_cov_mat,
                   min_fixed, loop_vars, first_min_cov, last_call, fit_nr,
                   ncalls>>

\* lines 738-746 and the while test of line 729
do_fit_allclose ==
    /\ pc = "allclose"
    /\ trace' = Append(trace, "check")
    /\ IF allclose(old_matrix, current_cov_mat)
       THEN /\ pc' = "print"
            /\ iter_nr' = iter_nr
       ELSE /\ iter_nr' = iter_nr + 1
            /\ pc' = IF LoopContinues(iter_nr + 1) THEN "copy" ELSE "print"
    /\ UNCHANGED <<dataset, log_vars, param_vars, fixed_vars, constr_vars,
                   current_cov_mat, min_values, min_fixed, old_matrix,
                   first_min_cov, fcn_vars, last_call, fit_nr, ncalls>>

\* lines 748-751: the report; do_fit returns and its locals are gone
do_fit_return ==
    /\ pc = "print"
    /\ pc' = "idle"
    /\ iter_nr' = 0
    /\ old_matrix' = <<>>
    /\ trace' = <<>>
    /\ first_min_cov' = <<>>
    /\ UNCHANGED <<dataset, log_vars, param_vars, fixed_vars, constr_vars,
                   current_cov_mat, min_values, min_fixed, fcn_vars,
                   last_call, fit_nr, ncalls>>

\* ------------------------------------------------------------ fit details
\* degrees of freedom with the fixed-parameter count subtracted
ndf_fixed_subtracted ==
    get_size(dataset) - number_of_parameters - number_of_fixed_parameters
        + number_of_constrained_parameters

\* print_fit_details: _ndf, the degrees of freedom of the fit-quality report
ndf ==
    get_size(dataset) - number_of_parameters + number_of_fixed_parameters
        + number_of_constrained_parameters

\* ------------------------------------------------------------------ claims
CountIn(seq, x) == Cardinality({k \in DOMAIN seq : seq[k] = x})
InDoFit == pc # "idle"
\* the relative comparison of the convergence check, written out:
\* |old - new| <= 1e-4 * |new| for every element
WithinTolerance(old, new) ==
    \A i \in 1..Len(new) : \A j \in 1..Len(new) :
        10000 * Abs(old[i][j] - new[i][j]) <= Abs(new[i][j])

C1_Bounded ==
    /\ CountIn(trace, "project") <= 10
    /\ CountIn(trace, "check") <= 10
    /\ iter_nr <= 10
    /\ pc = "print" => /\ current_parameter_values = min_values
                       /\ Len(trace) >= 1
                       /\ dataset.has_x =>
                              CountIn(trace, "project") >= 1
\* the check of the tenth iteration leaves the loop whatever it finds, and
\* from the end of the loop do_fit returns with the matrix and the
\* parameters as they are
C1_Exit ==
    /\ (pc = "allclose" /\ iter_nr = 9) => pc' = "print"
    /\ pc = "print" => /\ pc' = "idle"
                       /\ current_cov_mat' = current_cov_mat
                       /\ current_parameter_values' = current_parameter_values
                       /\ current_parameter_errors' = current_parameter_errors
\* C1: with x-errors, whatever the minimizer returns and whatever the
\* convergence check says, do_fit makes at most 10 projections and 10 loop
\* iterations; after the tenth it goes to its end without an error and
\* returns with the last matrix and the last parameter values.
C1_LoopBounded == []C1_Bounded /\ [][C1_Exit]_vars
\* the loop ran into the cap: ten projections, the last check failed
C1_Witness ==
    /\ pc = "print"
    /\ dataset.has_x
    /\ iter_nr = 10
    /\ CountIn(trace, "project") = 10
    /\ ~WithinTolerance(old_matrix, current_cov_mat)

\* C2: without x-errors one do_fit makes exactly one minimizer call, with
\* final_fit=True, no projection, and the working matrix stays the one the
\* Fit was constructed with.
C2_NoXErrors ==
    ~dataset.has_x =>
        /\ current_cov_mat = (IF dataset.has_y THEN dataset.cov_y
                              ELSE eye(get_size(dataset)))
        /\ pc \in {"idle", "call_minimizer", "print"}
        /\ pc = "call_minimizer" => trace = <<>>
        /\ pc = "print" => trace = <<"minimize_final">>
C2_Witness == ~dataset.has_x /\ pc = "print" /\ fit_nr = 2

\* C3: with x-errors the first minimizer call of every do_fit is made with
\* final_fit=False and with the working matrix equal to the dataset's
\* plain y covariance matrix.
C3_FirstCallPlainY ==
    (dataset.has_x /\ InDoFit /\ Len(trace) >= 1) =>
        /\ trace[1] = "minimize"
        /\ first_min_cov = dataset.cov_y

\* C4: inside the loop every iteration is snapshot, projection, one
\* minimizer call, convergence check, in this order; the minimizer call of
\* the first iteration is made with final_fit=False, that of every later
\* iteration with final_fit=True.
LoopStep(k) ==
    LET m == (k - 2) % 4
        iteration == (k - 2) \div 4
    IN  CASE m = 0 -> "snapshot"
          [] m = 1 -> "project"
          [] m = 2 -> IF iteration = 0 THEN "minimize" ELSE "minimize_final"
          [] OTHER -> "check"

\* C4: in a do_fit with x-errors the steps recorded after the first
\* minimizer call are snapshot, project, minimize, check, repeated in that
\* order; only the first iteration minimizes with final_fit=False.
C4_LoopOrder ==
    dataset.has_x =>
        /\ \A k \in 2..Len(trace) : trace[k] = LoopStep(k)
        /\ pc = "print" => (Len(trace) - 1) % 4 = 0 /\ Len(trace) >= 5
C4_Witness ==
    /\ dataset.has_x
    /\ pc = "print"
    /\ Len(trace) = 13

\* C5: the matrix after the projection is compared element by element
\* (rtol 1e-4, atol 0) with the snapshot of the same iteration; the loop
\* ends at the first iteration in which all elements match, with nothing
\* after the check; without a match and with fewer than 10 iterations done
\* another iteration follows.
C5_ConvergenceCheck ==
    dataset.has_x =>
        /\ pc = "print" =>
               /\ trace[Len(trace)] = "check"
               /\ WithinTolerance(old_matrix, current_cov_mat)
                      \/ iter_nr = 10
               /\ WithinTolerance(old_matrix, current_cov_mat)
                      => CountIn(trace, "check") = iter_nr + 1
        /\ (pc = "copy" /\ iter_nr > 0) =>
               /\ ~WithinTolerance(old_matrix, current_cov_mat)
               /\ iter_nr < 10
               /\ CountIn(trace, "check") = iter_nr
\* the loop ended in a later iteration on matrices that differ, and
\* differ by less than the tolerance
C5_Witness ==
    /\ dataset.has_x
    /\ pc = "print"
    /\ iter_nr >= 1
    /\ iter_nr < 10
    /\ old_matrix # current_cov_mat
    /\ WithinTolerance(old_matrix, current_cov_mat)

\* C6: right after a projection the working matrix is
\* C_y[i][j] + C_x[i][j] * dfdx[i] * dfdx[j] with dfdx the slope of the fit
\* function at the current parameter values: whatever the working matrix
\* was before, in any iteration of any do_fit.
Slope(x, p) == 2 * p[1] * x + p[2]
C6_ProjectionFormula ==
    pc = "loop_minimizer" =>
        \A i \in 1..get_size(dataset) : \A j \in 1..get_size(dataset) :
            current_cov_mat[i][j] =
                dataset.cov_y[i][j]
                + dataset.cov_x[i][j]
                  * Slope(dataset.x[i], current_parameter_values)
                  * Slope(dataset.x[j], current_parameter_values)
\* a projection in a second do_fit, onto a working matrix that an earlier
\* projection had already changed
C6_Witness ==
    /\ pc = "loop_minimizer"
    /\ fit_nr = 2
    /\ old_matrix # dataset.cov_y
    /\ current_cov_mat # dataset.cov_y
    /\ current_cov_mat # old_matrix

\* C7: the objective at p is r^T C^-1 r, r = y - f(x; p), C the working
\* matrix, plus ((p_i - target_i) / sigma_i)^2 for exactly the parameters
\* whose recorded sigma is not 0; a recorded sigma of 0 adds nothing.
HasSigma(i) ==
    /\ constrained_parameters # None
    /\ constrained_parameters[2][i] # 0
RECURSIVE PenaltySum(_, _)
PenaltySum(p, n) ==
    IF n = 0 THEN Frac(0, 1)
    ELSE FracAdd(PenaltySum(p, n - 1),
                 IF HasSigma(n)
                 THEN Frac((p[n] - constrained_parameters[1][n])
                               * (p[n] - constrained_parameters[1][n]),
                           constrained_parameters[2][n]
                               * constrained_parameters[2][n])
                 ELSE Frac(0, 1))
WeightedSquares(p) ==
    LET r1 == dataset.y[1] - fit_function(dataset.x[1], p)
        r2 == dataset.y[2] - fit_function(dataset.x[2], p)
        C == current_cov_mat
    IN  Frac(r1 * r1 * C[2][2] - r1 * r2 * (C[1][2] + C[2][1])
                 + r2 * r2 * C[1][1],
             C[1][1] * C[2][2] - C[1][2] * C[2][1])

\* C7: the objective handed to the minimizer at a point p is r^T C^-1 r
\* with r = y - f(x; p) and C the working matrix, plus ((p_i - target_i) /
\* sigma_i)^2 for exactly the parameters with a recorded nonzero sigma.
C7_Objective ==
    pc \in {"copy", "allclose", "print"} =>
        fcn_value = FracAdd(WeightedSquares(fcn_point),
                            PenaltySum(fcn_point, number_of_parameters))
\* an evaluation with one parameter penalised and one recorded with sigma 0
\* away from its target
C7_Witness ==
    /\ pc = "print"
    /\ constrained_parameters # None
    /\ \E i \in ParIdx : /\ HasSigma(i)
                         /\ fcn_point[i] # constrained_parameters[1][i]
    /\ \E i \in ParIdx : /\ constrained_flags[i]
                         /\ ~HasSigma(i)
                         /\ fcn_point[i] # constrained_parameters[1][i]

\* C8: when set_parameters sets a value and no error is given for it
\* (positional form with values only, keyword form with a bare value), the
\* stored error is value/10 for a value other than 0 and 0.1 for 0.
DefaultError(v) == IF v # 0 THEN v ELSE 1
C8_DefaultErrors ==
    /\ (last_call.op = "set_parameters" /\ last_call.raised = "none"
            /\ Len(last_call.args) = 1) =>
           \A i \in ParIdx :
               current_parameter_errors[i] = DefaultError(last_call.args[1][i])
    /\ (last_call.op = "set_parameters_kw" /\ last_call.raised = "none") =>
           \A k \in DOMAIN last_call.refs :
               "err" \notin DOMAIN last_call.args[k] =>
                   \E i \in ParIdx :
                       /\ parameter_names[i] = last_call.refs[k].str
                       /\ current_parameter_errors[i] =
                              DefaultError(last_call.args[k].val)

\* C9: positional set_parameters raises when the number of values or the
\* number of errors differs from the parameter count, so the stored value
\* list and the stored error list always have number_of_parameters entries.
C9_ShapeChecked ==
    /\ Len(current_parameter_values) = number_of_parameters
    /\ Len(current_parameter_errors) = number_of_parameters
    /\ (last_call.op = "set_parameters"
            /\ \E k \in DOMAIN last_call.args :
                   Len(last_call.args[k]) # number_of_parameters) =>
           last_call.raised # "none"

\* C10: set_parameters (keyword form), fix_parameters, release_parameters
\* and constrain_parameters raise when given a reference that is neither
\* an integer in 0..n-1 nor a parameter name.
ValidRef(ref) ==
    IF IsInt(ref) THEN ref.int \in 0..(number_of_parameters - 1)
    ELSE \E i \in ParIdx : parameter_names[i] = ref.str
C10_InvalidReferenceRaises ==
    (last_call.op \in {"set_parameters_kw", "fix_parameters",
                       "release_parameters", "constrain_parameters"}
         /\ \E k \in DOMAIN last_call.refs : ~ValidRef(last_call.refs[k])) =>
        last_call.raised # "none"

\* C11: after any fix_parameters, release_parameters and
\* constrain_parameters calls the degrees of freedom of the report are
\* (data points) - (parameters not fixed) + (parameters constrained).
NotFixed == {i \in ParIdx : ~fixed_parameters[i]}
Constrained == {i \in ParIdx : constrained_flags[i]}
C11_NdfAccounting ==
    ndf = get_size(dataset) - Cardinality(NotFixed) + Cardinality(Constrained)

\* the parameter (1-based) a valid reference stands for
RefIdx(ref) ==
    IF IsInt(ref) THEN ref.int + 1
    ELSE CHOOSE i \in ParIdx : parameter_names[i] = ref.str
\* this step is a fix_parameters call that returned normally and was given
\* valid references to distinct parameters that were free before it
FixesDistinctFree ==
    /\ ncalls' = ncalls + 1
    /\ last_call'.op = "fix_parameters"
    /\ last_call'.raised = "none"
    /\ \A k \in DOMAIN last_call'.refs :
           /\ ValidRef(last_call'.refs[k])
           /\ ~fixed_parameters[RefIdx(last_call'.refs[k])]
           /\ (RefIdx(last_call'.refs[k]) - 1) \notin min_fixed
    /\ \A k, l \in DOMAIN last_call'.refs :
           k # l => RefIdx(last_call'.refs[k]) # RefIdx(last_call'.refs[l])
\* this step belongs to a do_fit (it starts one, or is inside one)
FitStep == pc # "idle" \/ pc' # "idle"
\* C12 as stated: fixing k distinct free parameters makes the degrees of
\* freedom of the following fit smaller by k.
C12_FixLowersNdf ==
    [][/\ FixesDistinctFree => ndf' = ndf - Len(last_call'.refs)
       /\ FitStep => ndf' = ndf]_vars
\* C12: fixing k distinct free parameters makes the degrees of freedom
\* larger by exactly k, and the fit that follows reports them unchanged.
C12_FixRaisesNdf ==
    [][/\ FixesDistinctFree => ndf' = ndf + Len(last_call'.refs)
       /\ FitStep => ndf' = ndf]_vars
\* the report of a fit made after both parameters of a fresh Fit were fixed
C12_Witness ==
    /\ pc = "print"
    /\ fit_nr = 1
    /\ ncalls = 2
    /\ \A i \in ParIdx : fixed_parameters[i] /\ (i - 1) \in min_fixed
    /\ number_of_constrained_parameters = 0
    /\ ndf = get_size(dataset) - number_of_parameters + 2

\* the Fit's flags, its count and the minimizer agree on what is fixed
FixedStateConsistent ==
    /\ \A i \in ParIdx : fixed_parameters[i] <=> (i - 1) \in min_fixed
    /\ number_of_fixed_parameters = Cardinality(min_fixed)
\* C13: release_parameters() without arguments undoes every
\* fix_parameters call: afterwards every parameter is released in the
\* minimizer, no parameter is marked fixed in the Fit and the Fit's
\* fixed-parameter count is 0, as in a freshly constructed Fit.
C13_ReleaseAllInvertsFix ==
    [][(/\ FixedStateConsistent
        /\ ncalls' = ncalls + 1
        /\ last_call'.op = "release_parameters"
        /\ last_call'.refs = <<>>
        /\ last_call'.raised = "none") =>
           /\ min_fixed' = {}
           /\ \A i \in ParIdx : ~fixed_parameters'[i]
           /\ number_of_fixed_parameters' = 0]_vars

\* this step is a constrain_parameters call that returned normally and was
\* given valid references, each with sigma 0
ConstrainsSigmaZero ==
    /\ ncalls' = ncalls + 1
    /\ last_call'.op = "constrain_parameters"
    /\ last_call'.raised = "none"
    /\ \A k \in DOMAIN last_call'.refs :
           /\ ValidRef(last_call'.refs[k])
           /\ last_call'.args[2][k] = 0
\* C14: recording constraints with sigma 0 leaves the Fit as it is without
\* them: the same constrained-parameter count, the same degrees of freedom
\* and the same objective at every point.
C14_SigmaZeroIsNoConstraint ==
    [][ConstrainsSigmaZero =>
           /\ number_of_constrained_parameters' =
                  number_of_constrained_parameters
           /\ ndf' = ndf
           /\ \A p \in MinPoints :
                  call_external_fcn(p)' = call_external_fcn(p)]_vars

\* this step is a fix_parameters call that returned normally and was given
\* valid references
FixesValid ==
    /\ ncalls' = ncalls + 1
    /\ last_call'.op = "fix_parameters"
    /\ last_call'.raised = "none"
    /\ \A k \in DOMAIN last_call'.refs : ValidRef(last_call'.refs[k])
\* parameter i is fixed, and Fit and minimizer hold the same value for it
HeldFixed(i) ==
    /\ fixed_parameters[i]
    /\ (i - 1) \in min_fixed
    /\ current_parameter_values[i] = min_values[i]
SmallestFree(fs) ==
    CHOOSE k \in 1..(MaxLogId + 1) :
        /\ ~exists(fs, k)
        /\ \A j \in 1..(k - 1) : exists(fs, j)
\* every log a Fit of this basename has opened is in the directory
AllLogsPresent == \A c \in 1..log_nr : \E k \in DOMAIN files : files[k] = c
\* a construction moves an existing <basename>.log to the first free
\* numbered name and touches no other numbered log; every file that was
\* there is still there, under its old name or the new one
RenameKeepsLogs ==
    log_nr' = log_nr + 1 =>
        /\ exists(files, 0) =>
               /\ files'[SmallestFree(files)] = files[0]
               /\ \A j \in 1..MaxLogId :
                      j # SmallestFree(files) => files'[j] = files[j]
        /\ ~exists(files, 0) =>
               \A j \in 1..MaxLogId : files'[j] = files[j]
        /\ \A j \in DOMAIN files :
               exists(files, j) =>
                   \E m \in DOMAIN files : files'[m] = files[j]
        /\ files'[0] = log_nr + 1
\* C16: constructing a Fit renames an existing <basename>.log to
\* <basename>.k.log for the smallest k >= 1 without a file; no numbered log
\* is overwritten or deleted, so after any number of constructions every
\* earlier log is still there under some name.
C16_LogsKept == []AllLogsPresent /\ [][RenameKeepsLogs]_vars
\* three Fits in a directory that held <basename>.log and <basename>.1.log:
\* the old log went to 2, the first Fit's to 3, the second Fit's to 4
C16_Witness ==
    /\ log_nr = 3
    /\ files[0] = 3
    /\ files[1] < 0
    /\ files[2] < 0
    /\ files[3] = 1
    /\ files[4] = 2

\* the call signature the class docstring gives for an external FCN
DocumentedSignature ==
    <<"xdata", "ydata", "cov_mat", "fit_function", "parameter_values">>
\* C17: on every objective evaluation the external FCN is called with
\* exactly the five arguments of its documented signature, so that a
\* function taking exactly these five can be called.
C17_FiveArguments ==
    (pc \in {"copy", "allclose", "print"}) =>
        /\ Len(external_fcn_arguments(fcn_point)) = Len(DocumentedSignature)
        /\ fcn_value = call_external_fcn(fcn_point)

IsMinimize(step) == step \in {"minimize", "minimize_final"}
\* between any two minimizer calls of a do_fit that follow each other
\* there is at most one projection
OneProjectionBetweenCalls ==
    \A k, l \in DOMAIN trace :
        (/\ k < l
         /\ IsMinimize(trace[k])
         /\ IsMinimize(trace[l])
         /\ \A m \in (k + 1)..(l - 1) : ~IsMinimize(trace[m])) =>
            Cardinality({m \in (k + 1)..(l - 1) : trace[m] = "project"}) <= 1
\* a step that changes the working matrix is the projection step of do_fit
\* and sets it to the projected matrix
OnlyProjectionWrites ==
    current_cov_mat' # current_cov_mat =>
        /\ pc = "project"
        /\ pc' = "loop_minimizer"
        /\ trace' = Append(trace, "project")
        /\ current_cov_mat' =
               project_x_covariance_matrix(dataset, current_cov_mat,
                                           current_parameter_values)
\* C18: the working covariance matrix is written only by
\* project_x_covariance_matrix: the lifecycle calls, the minimizer calls and
\* the objective evaluations leave it as it is, and between two minimizer
\* calls it is changed by one projection or not at all.
C18_CovarianceFrame ==
    []OneProjectionBetweenCalls /\ [][OnlyProjectionWrites]_vars
\* a lifecycle call made after a fit with x-errors: the matrix is still the
\* projected one
C18_Witness ==
    /\ pc = "idle"
    /\ fit_nr = 1
    /\ ncalls = 2
    /\ last_call.op \in {"set_parameters", "set_parameters_kw",
                         "fix_parameters", "release_parameters",
                         "constrain_parameters"}
    /\ last_call.raised = "none"
    /\ dataset.has_x
    /\ current_cov_mat # dataset.cov_y

\* the last minimizer call recorded in the trace
LastMinimize ==
    trace[CHOOSE k \in DOMAIN trace :
              /\ IsMinimize(trace[k])
              /\ \A m \in (k + 1)..Len(trace) : ~IsMinimize(trace[m])]
\* C19: when do_fit is about to return, the last minimizer call it made was
\* made with final_fit=True, with and without x-errors and whatever the
\* iteration the loop stopped at.
C19_LastCallFinal ==
    pc = "print" => LastMinimize = "minimize_final"

\* C20: constrain_parameters with valid references works after a fit as
\* before one: it returns normally and records target and sigma of every
\* parameter named, do_fit having left the constraint state alone.
C20_ConstrainAfterFit ==
    (/\ last_call.op = "constrain_parameters"
     /\ \A k \in DOMAIN last_call.refs : ValidRef(last_call.refs[k])) =>
        /\ last_call.raised = "none"
        /\ constrained_parameters # None
        /\ \A k \in DOMAIN last_call.refs :
               constrained_flags[RefIdx(last_call.refs[k])]

\* this step is a call of fix_parameters, release_parameters,
\* constrain_parameters or keyword-form set_parameters with several
\* references that raised on a reference that is not valid
RaisesOnInvalidReference ==
    /\ ncalls' = ncalls + 1
    /\ last_call'.op \in {"set_parameters_kw", "fix_parameters",
                          "release_parameters", "constrain_parameters"}
    /\ Len(last_call'.refs) > 1
    /\ \E k \in DOMAIN last_call'.refs : ~ValidRef(last_call'.refs[k])
    /\ last_call'.raised \in {"ValueError", "IndexError"}
\* C21: a lifecycle call with several references that raises because one of
\* them is invalid leaves values, errors, fixed flags and count, constraint
\* targets, sigmas, flags and count and the minimizer's fixed parameters as
\* they were before the call.
C21_AllOrNothing ==
    [][RaisesOnInvalidReference =>
           /\ UNCHANGED <<param_vars, fixed_vars, constr_vars>>
           /\ UNCHANGED <<min_values, min_fixed>>]_vars

Next ==
    \/ call_set_parameters_positional
    \/ call_set_parameters_keywords
    \/ call_fix_parameters
    \/ call_release_parameters
    \/ call_constrain_parameters
    \/ do_fit_begin
    \/ do_fit_first_minimize
    \/ do_fit_copy
    \/ do_fit_project
    \/ do_fit_loop_minimize
    \/ do_fit_allclose
    \/ do_fit_return

Spec == Init /\ [][Next]_vars

\* successive constructions of Fits with one basename
LogNext == Fit_construct
LogSpec == LogInit /\ [][LogNext]_vars
====
